---- MODULE Spec2Model ----
(***************************************************************************)
(* Model of the axum-example item API: the in-memory item store, the item  *)
(* constructors, the api-key extractor and the request handlers.           *)
(*                                                                         *)
(* The repository holds two generations of the admin module.  The current  *)
(* one (src/routing/admin.rs, mounted by main.rs) guards its handlers with *)
(* ApiKeyExtractor and calls the map's own atomic operations; the earlier  *)
(* one (src/admin.rs) has no guard and works under the write lock.  The    *)
(* variable admin_module says which of the two the router mounts.          *)
(***************************************************************************)
EXTENDS Integers, Sequences, FiniteSets, TLC

VARIABLES
    admin_module,  \* "routing" (src/routing/admin.rs) or "legacy" (src/admin.rs)
    api_key,       \* Config.api_key, read-only after startup
    db,            \* AppState.db: name -> Item, a function on the stored names
    lock,          \* the RwLock of SharedState: [writer, readers], sets of requests
    req,           \* per request slot: the inputs of the request
    pc,            \* per request slot: where the request is in its handler
    number_of_items, \* per request slot: the local of delete_all_items
    resp,          \* per request slot: the response sent
    live,          \* history: name -> entity of the last Created not yet Removed / cleared
    removed        \* history: names whose last successful create/remove answer was Removed

vars == <<admin_module, api_key, db, lock, req, pc, number_of_items, resp, live, removed>>

----------------------------------------------------------------------------
(* Bounds of the model *)

\* Number of requests that can be in flight at the same time.
NumSlots == 2

Slots == 1..NumSlots

\* Item names clients use.
Names == {"a", "b"}

\* Values of the u64 id field clients send: both ends of the id range and
\* their outer neighbours.
U64Samples == {999, 1000, 9999, 10000, 10001}

\* Values of the api-key header that are visible ASCII.
Keys == {"k1", "k2"}

\* The key the service is configured with.
ConfiguredKeys == {"k1"}

----------------------------------------------------------------------------
(* HTTP status codes used by the responses *)

StatusOk == 200
StatusCreated == 201
StatusBadRequest == 400
StatusUnauthorized == 401
StatusNotFound == 404
StatusConflict == 409
StatusPayloadTooLarge == 413
StatusUnsupportedMediaType == 415
StatusUnprocessableEntity == 422
StatusInternalServerError == 500
StatusServiceUnavailable == 503

----------------------------------------------------------------------------
(* Option<T> is a set with at most one element *)

None == {}
Some(x) == {x}
Unwrap(o) == CHOOSE x \in o : TRUE
Option(S) == {None} \cup {Some(x) : x \in S}

----------------------------------------------------------------------------
(* The store: HashMap<String, Item> *)

EmptyDb == [k \in {} |-> k]

\* Mutant: the existence check never finds the name.
contains_key_never(map, name) == FALSE

contains_key(map, name) == name \in DOMAIN map

\* Mutant: the lookup never finds the name.
get_never(map, name) == None

get(map, name) == IF name \in DOMAIN map THEN Some(map[name]) ELSE None

\* Mutant: the entry is filed under a fixed key.
insert_misfiled(map, key, item) ==
    [k \in DOMAIN map \cup {"a"} |-> IF k = "a" THEN item ELSE map[k]]

insert(map, key, item) ==
    [k \in DOMAIN map \cup {key} |-> IF k = key THEN item ELSE map[k]]

\* Mutant: the entry stays in the map.
remove_keeps(map, name) == map

\* Mutant: every entry goes with the removed one.
remove_every(map, name) == [k \in {} |-> k]

remove(map, name) == [k \in DOMAIN map \ {name} |-> map[k]]

\* Mutant: the map keeps its entries.
clear_keeps(map) == map

clear(map) == EmptyDb

len(map) == Cardinality(DOMAIN map)

\* Mutant: the iteration may yield a name more than once.
keys_repeating(map) == [1..len(map) -> DOMAIN map]

\* keys() iterates in hash order: any order of the stored names.
keys(map) ==
    {s \in [1..len(map) -> DOMAIN map] :
        \A i, j \in 1..len(map) : i # j => s[i] # s[j]}

----------------------------------------------------------------------------
(* Item construction *)

IdRangeStart == 1000
IdRangeEnd == 10000

ErrIdRange == "ID must be between 1000 and 9999"

\* Mutant: the lower end of the range is exclusive.
ItemNew_exclusive(name, id) ==
    IF ~(IdRangeStart < id /\ id <= IdRangeEnd)
    THEN [ok |-> FALSE, err |-> ErrIdRange]
    ELSE [ok |-> TRUE, item |-> [id |-> id, name |-> name]]

\* Item::new: Err unless (1000..=10000).contains(&id)
ItemNew(name, id) ==
    IF ~(IdRangeStart <= id /\ id <= IdRangeEnd)
    THEN [ok |-> FALSE, err |-> ErrIdRange]
    ELSE [ok |-> TRUE, item |-> [id |-> id, name |-> name]]

RandomRangeStart == 1000
RandomRangeEnd == 9999

\* Mutant: the draw uses the range of the validation.
new_with_random_id_wide(name) ==
    {[id |-> i, name |-> name] :
        i \in {j \in U64Samples : IdRangeStart <= j /\ j <= IdRangeEnd}}

\* Item::new_with_random_id: rng.gen_range(1000..=9999); the set of items
\* the draw can produce, over the sampled u64 values.
new_with_random_id(name) ==
    {[id |-> i, name |-> name] :
        i \in {j \in U64Samples : RandomRangeStart <= j /\ j <= RandomRangeEnd}}

----------------------------------------------------------------------------
(* Requests *)

\* The routes of build_router that reach the store.
Ops == {"query_item", "create_item", "list_items", "remove_item", "delete_all_items"}

\* A header value: its bytes, and whether they are all visible ASCII.
HeaderValues ==
    {[bytes |-> k, ascii |-> TRUE] : k \in Keys}
        \cup {[bytes |-> "k-non-ascii", ascii |-> FALSE]}

\* HeaderValue::to_str: Err when a byte is not visible ASCII.
to_str(h) == IF h.ascii THEN Some(h.bytes) ELSE None

\* What the Json extractor makes of a request body: a CreateItem ("ok") or a
\* rejection.
JsonRejections ==
    {"JsonDataError", "JsonSyntaxError", "MissingJsonContentType", "BytesRejection"}

\* The inputs of a request; a field is filled in when the handler reads it.
NoRequest == [op |-> "none", name |-> "", id |-> None, header |-> None, body |-> "none"]

----------------------------------------------------------------------------
(* Responses: IntoResponse of each outcome type *)

NoResponse == [status |-> 0, body |-> [none |-> TRUE]]

\* Mutant: the field is serialized under another name.
MessageResponse_renamed(message) == [text |-> message]

MessageResponse(message) == [message |-> message]

CreateItemResponse_into_response(r) ==
    IF r.variant = "Created"
    THEN [status |-> StatusCreated, body |-> r.item]
    ELSE [status |-> StatusConflict, body |-> r.message]

\* Mutant: the Error variant is answered as a conflict.
ItemResponse_into_response_conflict(r) ==
    IF r.variant = "Found"
    THEN [status |-> StatusOk, body |-> r.item]
    ELSE [status |-> StatusConflict, body |-> r.message]

ItemResponse_into_response(r) ==
    IF r.variant = "Found"
    THEN [status |-> StatusOk, body |-> r.item]
    ELSE [status |-> StatusNotFound, body |-> r.message]

RemoveItemResponse_into_response(r) ==
    IF r.variant = "Removed"
    THEN [status |-> StatusOk, body |-> r.item]
    ELSE [status |-> StatusNotFound, body |-> r.message]

AuthErrorResponse_into_response(r) ==
    [status |-> StatusUnauthorized, body |-> [message |-> r.message]]

\* Mutant: the validation failure is answered as a client error.
ServerError_into_response_client(err) ==
    [status |-> StatusBadRequest, body |-> [string |-> <<"Error: ", err>>]]

\* The body is a bare JSON string, not an object.
ServerError_into_response(err) ==
    [status |-> StatusInternalServerError, body |-> [string |-> <<"Error: ", err>>]]

\* JsonRejection::status
JsonRejection_status(rejection) ==
    CASE rejection = "JsonDataError" -> StatusUnprocessableEntity
      [] rejection = "JsonSyntaxError" -> StatusBadRequest
      [] rejection = "MissingJsonContentType" -> StatusUnsupportedMediaType
      [] rejection = "BytesRejection" -> StatusPayloadTooLarge

RejectionError_from(rejection) ==
    [status |-> JsonRejection_status(rejection),
     message |-> <<"body_text: ", rejection>>,
     rejection |-> rejection]

\* Mutant: every rejection is answered 400.
RejectionError_into_response_flat(e) ==
    [status |-> StatusBadRequest, body |-> [error |-> e.rejection, message |-> e.message]]

RejectionError_into_response(e) ==
    [status |-> e.status, body |-> [error |-> e.rejection, message |-> e.message]]

----------------------------------------------------------------------------
(* The api-key extractor *)

\* Mutant: the Invalid reason tells the key that was expected.
from_request_parts_leaky(header, config) ==
    LET key == IF header = None THEN None ELSE to_str(Unwrap(header))
    IN  IF key # None /\ Unwrap(key) = Unwrap(config).api_key
        THEN [ok |-> TRUE, message |-> <<>>]
        ELSE IF key # None
             THEN [ok |-> FALSE,
                   message |-> <<"Invalid API key: ", Unwrap(key), Unwrap(config).api_key>>]
             ELSE [ok |-> FALSE, message |-> <<"Missing api-key header">>]

\* Mutant: any key that is presented passes.
from_request_parts_any(header, config) ==
    IF header # None /\ to_str(Unwrap(header)) # None
    THEN [ok |-> TRUE, message |-> <<>>]
    ELSE [ok |-> FALSE, message |-> <<"Missing api-key header">>]

\* Mutant: the two failure reasons are exchanged.
from_request_parts_swapped(header, config) ==
    LET key == IF header = None THEN None ELSE to_str(Unwrap(header))
    IN  IF key # None /\ Unwrap(key) = Unwrap(config).api_key
        THEN [ok |-> TRUE, message |-> <<>>]
        ELSE IF key # None
             THEN [ok |-> FALSE, message |-> <<"Missing api-key header">>]
             ELSE [ok |-> FALSE, message |-> <<"Invalid API key: ", "">>]

\* ApiKeyExtractor::from_request_parts; config is the Extension<Arc<Config>>
\* of the route, None when the layer is missing.
from_request_parts(header, config) ==
    IF config = None
    THEN [ok |-> FALSE, message |-> <<"Config extension missing from route">>]
    ELSE LET key == IF header = None THEN None ELSE to_str(Unwrap(header))
         IN  IF key # None /\ Unwrap(key) = Unwrap(config).api_key
             THEN [ok |-> TRUE, message |-> <<>>]
             ELSE IF key # None
                  THEN [ok |-> FALSE, message |-> <<"Invalid API key: ", Unwrap(key)>>]
                  ELSE [ok |-> FALSE, message |-> <<"Missing api-key header">>]

----------------------------------------------------------------------------
(* State after construction *)

Init ==
    /\ admin_module \in {"routing", "legacy"}
    /\ api_key \in ConfiguredKeys
    /\ db = EmptyDb
    /\ lock = [writer |-> {}, readers |-> {}]
    /\ req = [s \in Slots |-> NoRequest]
    /\ pc = [s \in Slots |-> "idle"]
    /\ number_of_items = [s \in Slots |-> 0]
    /\ resp = [s \in Slots |-> NoResponse]
    /\ live = EmptyDb
    /\ removed = {}

\* The handlers that work under the RwLock, and the access they take.
TakesWrite(op) ==
    \/ op = "create_item"
    \/ admin_module = "legacy" /\ op \in {"remove_item", "delete_all_items"}

TakesRead(op) == op \in {"query_item", "list_items"}

\* Mutant: the guard is kept after the handler has returned.
Release_kept(s) == lock

\* The guard dropped at the end of a handler.
Release(s) == [writer |-> lock.writer \ {s}, readers |-> lock.readers \ {s}]

\* What a client that sees the responses knows of the store.
ObserveLive(op, response) ==
    IF op = "create_item" /\ response.status = StatusCreated
    THEN insert(live, response.body.name, response.body)
    ELSE IF op = "remove_item" /\ response.status = StatusOk
    THEN remove(live, response.body.name)
    ELSE IF op = "delete_all_items" /\ response.status = StatusOk
    THEN EmptyDb
    ELSE live

ObserveRemoved(op, response) ==
    IF op = "create_item" /\ response.status = StatusCreated
    THEN removed \ {response.body.name}
    ELSE IF op = "remove_item" /\ response.status = StatusOk
    THEN removed \cup {response.body.name}
    ELSE removed

\* The handler of slot s returns: the response is sent and its guard dropped.
Respond(s, response) ==
    /\ resp' = [resp EXCEPT ![s] = response]
    /\ pc' = [pc EXCEPT ![s] = "responded"]
    /\ lock' = Release(s)
    /\ live' = ObserveLive(req[s].op, response)
    /\ removed' = ObserveRemoved(req[s].op, response)

\* No response is on its way out.  Sending a response touches nothing the
\* handlers share, so it is taken as the step right after the handler returns.
Quiet == \A s \in Slots : pc[s] # "responded"

----------------------------------------------------------------------------
(* Steps of a request *)

\* A request for route op arrives on a free slot.
Receive(s, op) ==
    /\ Quiet
    /\ pc[s] = "idle"
    /\ req' = [req EXCEPT ![s] = [NoRequest EXCEPT !.op = op]]
    /\ pc' = [pc EXCEPT ![s] = "received"]
    /\ UNCHANGED <<admin_module, api_key, db, lock, number_of_items, resp, live, removed>>

\* The extractors of create_item: State, then WithRejection<Json<CreateItem>, RejectionError>.
ExtractCreate(s, body) ==
    /\ Quiet
    /\ pc[s] = "received"
    /\ req[s].op = "create_item"
    /\ req' = [req EXCEPT ![s].body = body]
    /\ IF body \in JsonRejections
       THEN Respond(s, RejectionError_into_response(RejectionError_from(body)))
       ELSE /\ pc' = [pc EXCEPT ![s] = "validated"]
            /\ UNCHANGED <<resp, lock, live, removed>>
    /\ UNCHANGED <<admin_module, api_key, db, number_of_items>>

\* The extractors of the admin handlers of src/routing/admin.rs: ApiKeyExtractor first.
ExtractAdmin(s, header) ==
    /\ Quiet
    /\ admin_module = "routing"
    /\ pc[s] = "received"
    /\ req[s].op \in {"remove_item", "delete_all_items"}
    /\ req' = [req EXCEPT ![s].header = header]
    /\ LET auth == from_request_parts(header, Some([api_key |-> api_key]))
       IN  IF ~auth.ok
           THEN Respond(s, AuthErrorResponse_into_response(auth))
           ELSE /\ pc' = [pc EXCEPT ![s] = "validated"]
                /\ UNCHANGED <<resp, lock, live, removed>>
    /\ UNCHANGED <<admin_module, api_key, db, number_of_items>>

\* The extractors that cannot reject: State, Query and Path.
ExtractPlain(s) ==
    /\ Quiet
    /\ pc[s] = "received"
    /\ \/ req[s].op \in {"query_item", "list_items"}
       \/ admin_module = "legacy" /\ req[s].op \in {"remove_item", "delete_all_items"}
    /\ pc' = [pc EXCEPT ![s] = "validated"]
    /\ UNCHANGED <<admin_module, api_key, db, lock, req, number_of_items, resp, live, removed>>

\* Mutant: read access is granted while a writer holds the lock.
AcquireRead_unchecked(s) ==
    /\ Quiet
    /\ pc[s] = "validated"
    /\ TakesRead(req[s].op)
    /\ lock' = [lock EXCEPT !.readers = @ \cup {s}]
    /\ pc' = [pc EXCEPT ![s] = "locked"]
    /\ UNCHANGED <<admin_module, api_key, db, req, number_of_items, resp, live, removed>>

\* state.read().await
AcquireRead(s) ==
    /\ Quiet
    /\ pc[s] = "validated"
    /\ TakesRead(req[s].op)
    /\ lock.writer = {}
    /\ lock' = [lock EXCEPT !.readers = @ \cup {s}]
    /\ pc' = [pc EXCEPT ![s] = "locked"]
    /\ UNCHANGED <<admin_module, api_key, db, req, number_of_items, resp, live, removed>>

\* Mutant: write access is granted without waiting for the lock to be free.
AcquireWrite_shared(s) ==
    /\ Quiet
    /\ pc[s] = "validated"
    /\ TakesWrite(req[s].op)
    /\ lock' = [lock EXCEPT !.writer = @ \cup {s}]
    /\ pc' = [pc EXCEPT ![s] = "locked"]
    /\ UNCHANGED <<admin_module, api_key, db, req, number_of_items, resp, live, removed>>

\* state.write().await
AcquireWrite(s) ==
    /\ Quiet
    /\ pc[s] = "validated"
    /\ TakesWrite(req[s].op)
    /\ lock.writer = {}
    /\ lock.readers = {}
    /\ lock' = [lock EXCEPT !.writer = {s}]
    /\ pc' = [pc EXCEPT ![s] = "locked"]
    /\ UNCHANGED <<admin_module, api_key, db, req, number_of_items, resp, live, removed>>

\* The outcome of query_item for what db.get(&item.name) returned.
QueryOutcome(name, found) ==
    IF found # None
    THEN ItemResponse_into_response([variant |-> "Found", item |-> Unwrap(found)])
    ELSE ItemResponse_into_response(
             [variant |-> "Error",
              message |-> MessageResponse(<<"Item does not exist: ", name>>)])

\* Mutant: the lookup takes the entry out of the map.
QueryItem_taking(s, name) ==
    /\ Quiet
    /\ pc[s] = "locked"
    /\ req[s].op = "query_item"
    /\ req' = [req EXCEPT ![s].name = name]
    /\ db' = remove(db, name)
    /\ Respond(s, QueryOutcome(name, get(db, name)))
    /\ UNCHANGED <<admin_module, api_key, number_of_items>>

\* query_item, under the read lock
QueryItem(s, name) ==
    /\ Quiet
    /\ pc[s] = "locked"
    /\ req[s].op = "query_item"
    /\ req' = [req EXCEPT ![s].name = name]
    /\ Respond(s, QueryOutcome(name, get(db, name)))
    /\ UNCHANGED <<admin_module, api_key, db, number_of_items>>

\* Mutant: the existence check is skipped and the insert overwrites.
CreateOutcomes_overwrite(map, name, id) ==
    IF id # None /\ ~ItemNew(name, Unwrap(id)).ok
    THEN {[db |-> map,
           response |-> ServerError_into_response(ItemNew(name, Unwrap(id)).err)]}
    ELSE {[db |-> insert(map, item.name, item),
           response |-> CreateItemResponse_into_response(
               [variant |-> "Created", item |-> item])] :
            item \in IF id # None
                     THEN {ItemNew(name, Unwrap(id)).item}
                     ELSE new_with_random_id(name)}

\* Mutant: an id that a stored item holds is refused like a taken name.
CreateOutcomes_unique_ids(map, name, id) ==
    IF contains_key(map, name) \/ (id # None /\ \E k \in DOMAIN map : map[k].id = Unwrap(id))
    THEN {[db |-> map,
           response |-> CreateItemResponse_into_response(
               [variant |-> "Error",
                message |-> MessageResponse(<<"Item already exists: ", name>>)])]}
    ELSE IF id # None /\ ~ItemNew(name, Unwrap(id)).ok
    THEN {[db |-> map,
           response |-> ServerError_into_response(ItemNew(name, Unwrap(id)).err)]}
    ELSE {[db |-> insert(map, item.name, item),
           response |-> CreateItemResponse_into_response(
               [variant |-> "Created", item |-> item])] :
            item \in IF id # None
                     THEN {ItemNew(name, Unwrap(id)).item}
                     ELSE new_with_random_id(name)}

\* Mutant: the id is validated before the name is looked up.
CreateOutcomes_validate_first(map, name, id) ==
    IF id # None /\ ~ItemNew(name, Unwrap(id)).ok
    THEN {[db |-> map,
           response |-> ServerError_into_response(ItemNew(name, Unwrap(id)).err)]}
    ELSE IF contains_key(map, name)
    THEN {[db |-> map,
           response |-> CreateItemResponse_into_response(
               [variant |-> "Error",
                message |-> MessageResponse(<<"Item already exists: ", name>>)])]}
    ELSE {[db |-> insert(map, item.name, item),
           response |-> CreateItemResponse_into_response(
               [variant |-> "Created", item |-> item])] :
            item \in IF id # None
                     THEN {ItemNew(name, Unwrap(id)).item}
                     ELSE new_with_random_id(name)}

\* The body of create_item for payload {name, id}: the new map and the
\* response, one for every id the random draw can give.
CreateOutcomes(map, name, id) ==
    IF contains_key(map, name)
    THEN {[db |-> map,
           response |-> CreateItemResponse_into_response(
               [variant |-> "Error",
                message |-> MessageResponse(<<"Item already exists: ", name>>)])]}
    ELSE IF id # None /\ ~ItemNew(name, Unwrap(id)).ok
    THEN {[db |-> map,
           response |-> ServerError_into_response(ItemNew(name, Unwrap(id)).err)]}
    ELSE {[db |-> insert(map, item.name, item),
           response |-> CreateItemResponse_into_response(
               [variant |-> "Created", item |-> item])] :
            item \in IF id # None
                     THEN {ItemNew(name, Unwrap(id)).item}
                     ELSE new_with_random_id(name)}

\* create_item, under the write lock
CreateItem(s, name, id) ==
    /\ Quiet
    /\ pc[s] = "locked"
    /\ req[s].op = "create_item"
    /\ req' = [req EXCEPT ![s].name = name, ![s].id = id]
    /\ \E out \in CreateOutcomes(db, name, id) :
           /\ db' = out.db
           /\ Respond(s, out.response)
    /\ UNCHANGED <<admin_module, api_key, number_of_items>>

\* list_items, under the read lock
ListItems(s) ==
    /\ Quiet
    /\ pc[s] = "locked"
    /\ req[s].op = "list_items"
    /\ \E names \in keys(db) :
           Respond(s, [status |-> StatusOk,
                       body |-> [num_items |-> Len(names), names |-> names]])
    /\ UNCHANGED <<admin_module, api_key, db, req, number_of_items>>

\* The outcome of remove_item for what db.remove(&name) returned.
RemoveOutcome(name, existing) ==
    IF existing # None
    THEN RemoveItemResponse_into_response(
             [variant |-> "Removed", item |-> Unwrap(existing)])
    ELSE RemoveItemResponse_into_response(
             [variant |-> "Error",
              message |-> MessageResponse(<<"Item does not exist: ", name>>)])

\* The outcome of delete_all_items.
DeleteAllOutcome(n) ==
    [status |-> StatusOk, body |-> MessageResponse(<<"Removed ", n, " items">>)]

\* Mutant: the entry is read and answered, and stays in the map.
RemoveItem_peek(s, name) ==
    /\ Quiet
    /\ admin_module = "routing"
    /\ pc[s] = "validated"
    /\ req[s].op = "remove_item"
    /\ req' = [req EXCEPT ![s].name = name]
    /\ db' = db
    /\ Respond(s, RemoveOutcome(name, get(db, name)))
    /\ UNCHANGED <<admin_module, api_key, number_of_items>>

\* remove_item of src/routing/admin.rs: one atomic remove on the map
RemoveItem(s, name) ==
    /\ Quiet
    /\ admin_module = "routing"
    /\ pc[s] = "validated"
    /\ req[s].op = "remove_item"
    /\ req' = [req EXCEPT ![s].name = name]
    /\ db' = remove(db, name)
    /\ Respond(s, RemoveOutcome(name, get(db, name)))
    /\ UNCHANGED <<admin_module, api_key, number_of_items>>

\* delete_all_items of src/routing/admin.rs: state.db.len()
DeleteAllLen(s) ==
    /\ Quiet
    /\ admin_module = "routing"
    /\ pc[s] = "validated"
    /\ req[s].op = "delete_all_items"
    /\ number_of_items' = [number_of_items EXCEPT ![s] = len(db)]
    /\ pc' = [pc EXCEPT ![s] = "counted"]
    /\ UNCHANGED <<admin_module, api_key, db, lock, req, resp, live, removed>>

\* delete_all_items of src/routing/admin.rs: state.db.clear() and the answer
DeleteAllClear(s) ==
    /\ Quiet
    /\ admin_module = "routing"
    /\ pc[s] = "counted"
    /\ db' = clear(db)
    /\ Respond(s, DeleteAllOutcome(number_of_items[s]))
    /\ UNCHANGED <<admin_module, api_key, req, number_of_items>>

\* remove_item of src/admin.rs, under the write lock
LegacyRemoveItem(s, name) ==
    /\ Quiet
    /\ admin_module = "legacy"
    /\ pc[s] = "locked"
    /\ req[s].op = "remove_item"
    /\ req' = [req EXCEPT ![s].name = name]
    /\ db' = remove(db, name)
    /\ Respond(s, RemoveOutcome(name, get(db, name)))
    /\ UNCHANGED <<admin_module, api_key, number_of_items>>

\* delete_all_items of src/admin.rs, under the write lock
LegacyDeleteAllItems(s) ==
    /\ Quiet
    /\ admin_module = "legacy"
    /\ pc[s] = "locked"
    /\ req[s].op = "delete_all_items"
    /\ number_of_items' = [number_of_items EXCEPT ![s] = len(db)]
    /\ db' = clear(db)
    /\ Respond(s, DeleteAllOutcome(len(db)))
    /\ UNCHANGED <<admin_module, api_key, req>>

\* The answer of TimeoutLayer::with_status_code: the status and no body.
TimeoutResponse == [status |-> StatusServiceUnavailable, body |-> [empty |-> TRUE]]

\* The handler of slot s is suspended in state.read().await or
\* state.write().await because the lock is not free.
AwaitsLock(s) ==
    /\ pc[s] = "validated"
    /\ \/ TakesWrite(req[s].op) /\ (lock.writer # {} \/ lock.readers # {})
       \/ TakesRead(req[s].op) /\ lock.writer # {}

\* The Json extractor of create_item is suspended reading the request body.
AwaitsBody(s) == pc[s] = "received" /\ req[s].op = "create_item"

\* Mutant: the timeout also drops a handler that is inside its body.
Timeout_anywhere(s) ==
    /\ Quiet
    /\ pc[s] \in {"validated", "locked", "counted"}
    /\ Respond(s, TimeoutResponse)
    /\ UNCHANGED <<admin_module, api_key, db, req, number_of_items>>

\* The 10 seconds of the TimeoutLayer run out: the future of the request is
\* dropped where it is suspended, which is the read of the body by the Json
\* extractor or, in a handler, the wait for the lock, and 503 is answered in
\* its place.
Timeout(s) ==
    /\ Quiet
    /\ AwaitsLock(s) \/ AwaitsBody(s)
    /\ Respond(s, TimeoutResponse)
    /\ UNCHANGED <<admin_module, api_key, db, req, number_of_items>>

\* Mutant: the request is run again after its answer.
Done_retry(s) ==
    /\ pc[s] = "responded"
    /\ pc' = [pc EXCEPT ![s] = "received"]
    /\ resp' = [resp EXCEPT ![s] = NoResponse]
    /\ number_of_items' = [number_of_items EXCEPT ![s] = 0]
    /\ UNCHANGED <<admin_module, api_key, db, lock, req, live, removed>>

\* The response has left; the slot is free for the next request.
Done(s) ==
    /\ pc[s] = "responded"
    /\ pc' = [pc EXCEPT ![s] = "idle"]
    /\ req' = [req EXCEPT ![s] = NoRequest]
    /\ resp' = [resp EXCEPT ![s] = NoResponse]
    /\ number_of_items' = [number_of_items EXCEPT ![s] = 0]
    /\ UNCHANGED <<admin_module, api_key, db, lock, live, removed>>

Next ==
    \E s \in Slots :
        \/ \E op \in Ops : Receive(s, op)
        \/ \E body \in {"ok"} \cup JsonRejections : ExtractCreate(s, body)
        \/ \E header \in Option(HeaderValues) : ExtractAdmin(s, header)
        \/ ExtractPlain(s)
        \/ AcquireRead(s)
        \/ AcquireWrite(s)
        \/ \E name \in Names : QueryItem(s, name)
        \/ \E name \in Names, id \in Option(U64Samples) : CreateItem(s, name, id)
        \/ ListItems(s)
        \/ \E name \in Names : RemoveItem(s, name)
        \/ DeleteAllLen(s)
        \/ DeleteAllClear(s)
        \/ \E name \in Names : LegacyRemoveItem(s, name)
        \/ LegacyDeleteAllItems(s)
        \/ Timeout(s)
        \/ Done(s)

Spec == Init /\ [][Next]_vars

\* The steps the runtime takes for the request of slot s once it has arrived.
HandlerStep(s) ==
    \/ \E body \in {"ok"} \cup JsonRejections : ExtractCreate(s, body)
    \/ \E header \in Option(HeaderValues) : ExtractAdmin(s, header)
    \/ ExtractPlain(s)
    \/ AcquireRead(s)
    \/ AcquireWrite(s)
    \/ \E name \in Names : QueryItem(s, name)
    \/ \E name \in Names, id \in Option(U64Samples) : CreateItem(s, name, id)
    \/ ListItems(s)
    \/ \E name \in Names : RemoveItem(s, name)
    \/ DeleteAllLen(s)
    \/ DeleteAllClear(s)
    \/ \E name \in Names : LegacyRemoveItem(s, name)
    \/ LegacyDeleteAllItems(s)
    \/ Done(s)

\* The tokio runtime polls every task that can run, and the lock is granted
\* to a handler that finds it free again and again (tokio's RwLock queues its
\* waiters); a request that stays suspended is dropped when the 10 seconds
\* of the TimeoutLayer run out.  Nothing obliges a client to send a request.
Fairness ==
    \A s \in Slots : SF_vars(HandlerStep(s)) /\ SF_vars(Timeout(s))

FairSpec == Spec /\ Fairness

----------------------------------------------------------------------------
(* Properties *)

\* The id range the Item documentation and the error message of Item::new state.
ItemIdMin == 1000
ItemIdMax == 9999

InIdRange(id) == ItemIdMin <= id /\ id <= ItemIdMax

AdminOps == {"remove_item", "delete_all_items"}

\* The handler of slot s returns in this step: req'[s] holds the inputs it
\* read, resp'[s] its response, db and db' the store before and after.
Answered(s) ==
    /\ pc[s] # "responded"
    /\ pc'[s] = "responded"
    /\ resp'[s] # TimeoutResponse

\* A create whose body the Json extractor accepted answers in this step.
CreateAnswered(s) ==
    Answered(s) /\ req'[s].op = "create_item" /\ req'[s].body = "ok"

\* The api-key extractor of slot s runs in this step.
GuardRuns(s) ==
    /\ admin_module = "routing"
    /\ pc[s] = "received"
    /\ pc'[s] # "received"
    /\ req[s].op \in AdminOps

MissingReason == <<"Missing api-key header">>
InvalidReason(key) == <<"Invalid API key: ", key>>

\* C1 (uniqueness): once a create of n has answered Created, every create of
\* n answered before a remove of n or a delete-all succeeds answers Conflict
\* (409), whatever id it carries, and leaves the store as it was.
C1_Uniqueness ==
    [][\A s \in Slots :
          (CreateAnswered(s) /\ req'[s].name \in DOMAIN live)
              => (resp'[s].status = StatusConflict /\ db' = db)]_vars

C1_Witness ==
    \E s \in Slots :
        /\ pc[s] = "responded"
        /\ req[s].op = "create_item"
        /\ req[s].id = Some(9999)
        /\ req[s].name \in DOMAIN live
        /\ live[req[s].name].id # 9999
        /\ resp[s].status = StatusConflict

\* C2 (auth gate): an admin request whose api-key header is missing or is not
\* the configured key is answered 401 by the extractor, with the store
\* unchanged, and never gets to the body of its handler.
C2_AuthGate ==
    [][\A s \in Slots :
          /\ (GuardRuns(s) /\ (req'[s].header = None
                                  \/ Unwrap(req'[s].header).bytes # api_key))
                => /\ resp'[s].status = StatusUnauthorized
                   /\ pc'[s] = "responded"
                   /\ db' = db
          /\ (admin_module = "routing" /\ req'[s].op \in AdminOps
                  /\ pc'[s] \in {"validated", "counted"})
                => /\ req'[s].header # None
                   /\ Unwrap(req'[s].header).bytes = api_key]_vars

C2_Witness ==
    \E s \in Slots :
        /\ admin_module = "routing"
        /\ pc[s] = "responded"
        /\ req[s].op = "delete_all_items"
        /\ req[s].header = Some([bytes |-> "k2", ascii |-> TRUE])
        /\ resp[s].status = StatusUnauthorized
        /\ DOMAIN db = Names

\* C3 (id range of the store): every entity in the store has an id in
\* [1000, 9999].
C3_StoredIdInRange == \A k \in DOMAIN db : InIdRange(db[k].id)

\* C4 (Item::new): a create of an absent name with a client id, which is
\* where Item::new runs, fails exactly when the id is outside [1000, 9999]
\* and otherwise yields the item {name, id}.
C4_ItemNewRange ==
    \A s \in Slots :
        (pc[s] = "responded" /\ req[s].op = "create_item" /\ req[s].id # None
            /\ resp[s].status \in {StatusCreated, StatusInternalServerError})
        => /\ (resp[s].status = StatusInternalServerError)
                  <=> ~InIdRange(Unwrap(req[s].id))
           /\ resp[s].status = StatusCreated
                  => resp[s].body = [id |-> Unwrap(req[s].id), name |-> req[s].name]

\* C5 (create with a valid id): a create of a name not in the store with an
\* id in [1000, 9999] answers Created with the entity {id, name}, and the
\* store then maps the name to exactly that entity.
C5_CreateWithId ==
    [][\A s \in Slots :
          (CreateAnswered(s) /\ req'[s].id # None /\ InIdRange(Unwrap(req'[s].id))
              /\ req'[s].name \notin DOMAIN db)
          => LET e == [id |-> Unwrap(req'[s].id), name |-> req'[s].name]
             IN  /\ resp'[s] = [status |-> StatusCreated, body |-> e]
                 /\ req'[s].name \in DOMAIN db'
                 /\ db'[req'[s].name] = e
                 /\ \A k \in DOMAIN db : k \in DOMAIN db' /\ db'[k] = db[k]]_vars

C5_Witness ==
    \E s \in Slots :
        /\ pc[s] = "responded"
        /\ req[s].op = "create_item"
        /\ req[s].id = Some(1000)
        /\ resp[s] = [status |-> StatusCreated,
                      body |-> [id |-> 1000, name |-> req[s].name]]
        /\ db[req[s].name] = resp[s].body
        /\ Cardinality(DOMAIN db) = 2

\* C6 (random id): a create without an id of a name not in the store answers
\* Created, and the id answered and stored is in [1000, 9999]; the random
\* constructor yields an item for every name.
C6_RandomId ==
    [][/\ \A n \in Names : new_with_random_id(n) # {}
       /\ \A s \in Slots :
          (CreateAnswered(s) /\ req'[s].id = None /\ req'[s].name \notin DOMAIN db)
          => /\ resp'[s].status = StatusCreated
             /\ resp'[s].body.name = req'[s].name
             /\ InIdRange(resp'[s].body.id)
             /\ req'[s].name \in DOMAIN db'
             /\ db'[req'[s].name] = resp'[s].body]_vars

C6_Witness ==
    \E s \in Slots :
        /\ pc[s] = "responded"
        /\ req[s].op = "create_item"
        /\ req[s].id = None
        /\ resp[s].status = StatusCreated
        /\ resp[s].body.id = ItemIdMax
        /\ db[req[s].name].id = ItemIdMax

\* C7 (round trip): a query by the name of an entity that a create answered,
\* with no remove of the name or delete-all since, answers Found (200) with
\* exactly that entity.
C7_RoundTrip ==
    [][\A s \in Slots :
          (Answered(s) /\ req'[s].op = "query_item" /\ req'[s].name \in DOMAIN live)
          => resp'[s] = [status |-> StatusOk, body |-> live[req'[s].name]]]_vars

C7_Witness ==
    \E s \in Slots :
        /\ pc[s] = "responded"
        /\ req[s].op = "query_item"
        /\ req[s].name \in DOMAIN live
        /\ resp[s] = [status |-> StatusOk, body |-> live[req[s].name]]
        /\ resp[s].body.name = req[s].name

C9_GuardAsStated ==
    [][\A s \in Slots :
          GuardRuns(s) =>
              LET h == req'[s].header
              IN  /\ h = None
                     => (pc'[s] = "responded" /\ resp'[s].body.message = MissingReason)
                  /\ (h # None /\ Unwrap(h).bytes # api_key)
                     => /\ pc'[s] = "responded"
                        /\ resp'[s].body.message = InvalidReason(Unwrap(h).bytes)
                  /\ (h # None /\ Unwrap(h).bytes = api_key)
                     => pc'[s] = "validated"]_vars

\* C9 (access guard), amended: the outcome depends only on the header and the
\* configured key.  No header, or a header value that is not visible ASCII,
\* gives 401 with the Missing reason; a visible-ASCII key other than the
\* configured one gives 401 with the Invalid reason naming it; the configured
\* key passes and the handler body runs next.
C9_Guard ==
    [][\A s \in Slots :
          GuardRuns(s) =>
              LET h == req'[s].header
              IN  /\ (h = None \/ (h # None /\ ~Unwrap(h).ascii))
                     => /\ pc'[s] = "responded"
                        /\ resp'[s] = [status |-> StatusUnauthorized,
                                       body |-> [message |-> MissingReason]]
                  /\ (h # None /\ Unwrap(h).ascii /\ Unwrap(h).bytes # api_key)
                     => /\ pc'[s] = "responded"
                        /\ resp'[s] = [status |-> StatusUnauthorized,
                                       body |-> [message |->
                                                    InvalidReason(Unwrap(h).bytes)]]
                  /\ (h # None /\ Unwrap(h).ascii /\ Unwrap(h).bytes = api_key)
                     => pc'[s] = "validated" /\ resp'[s] = NoResponse]_vars

C9_Witness ==
    \E s \in Slots :
        /\ pc[s] = "responded"
        /\ req[s].op = "remove_item"
        /\ req[s].header # None
        /\ ~Unwrap(req[s].header).ascii
        /\ resp[s] = [status |-> StatusUnauthorized, body |-> [message |-> MissingReason]]

\* C10 (remove): a remove that passed the guard answers Removed (200) with
\* the entity stored under the name and deletes that entry alone when the
\* name is in the store, and answers 404 with the store unchanged when not.
C10_Remove ==
    [][\A s \in Slots :
          (Answered(s) /\ req'[s].op = "remove_item" /\ pc[s] # "received")
          => LET n == req'[s].name
             IN  IF n \in DOMAIN db
                 THEN /\ resp'[s] = [status |-> StatusOk, body |-> db[n]]
                      /\ DOMAIN db' = DOMAIN db \ {n}
                      /\ \A k \in DOMAIN db' : db'[k] = db[k]
                 ELSE /\ resp'[s].status = StatusNotFound
                      /\ db' = db]_vars

C10_Witness ==
    \E s \in Slots :
        /\ pc[s] = "responded"
        /\ req[s].op = "remove_item"
        /\ resp[s].status = StatusOk
        /\ resp[s].body.name = req[s].name
        /\ req[s].name \notin DOMAIN db
        /\ DOMAIN db # {}

\* The handler of slot s, serving route op, returns in this step.
AnsweredOp(s, op) == Answered(s) /\ req'[s].op = op

\* C11 (delete-all): when a delete-all answers 200 the store is empty; a list
\* answered while no entity created since is left (live is empty) reports
\* num_items 0 and no names, and a query answered then reports not-found; a
\* step of any other operation takes at most one entry out of the store.
C11_DeleteAll ==
    [][/\ \A s \in Slots :
            /\ (AnsweredOp(s, "delete_all_items") /\ resp'[s].status = StatusOk)
                  => (db' = EmptyDb /\ live' = EmptyDb)
            /\ (AnsweredOp(s, "list_items") /\ live = EmptyDb)
                  => resp'[s].body = [num_items |-> 0, names |-> <<>>]
            /\ (AnsweredOp(s, "query_item") /\ live = EmptyDb)
                  => resp'[s].status = StatusNotFound
       /\ (~ \E s \in Slots : AnsweredOp(s, "delete_all_items"))
              => Cardinality(DOMAIN db \ DOMAIN db') <= 1]_vars

C11_Witness ==
    \E s \in Slots :
        /\ pc[s] = "responded"
        /\ req[s].op = "delete_all_items"
        /\ resp[s].status = StatusOk
        /\ number_of_items[s] = 2
        /\ db = EmptyDb
        /\ live = EmptyDb

\* C12 (delete-all count): the number in the "Removed N items" message of a
\* delete-all is the number of entries its clear took out of the store,
\* whatever other requests ran between its steps.
C12_CountIsRemoved ==
    [][\A s \in Slots :
          (AnsweredOp(s, "delete_all_items") /\ resp'[s].status = StatusOk)
              => resp'[s].body = MessageResponse(
                     <<"Removed ", Cardinality(DOMAIN db \ DOMAIN db'), " items">>)]_vars

\* C13 (list): a list answers 200 with num_items equal to the length of names,
\* names holding every key of the store exactly once and nothing else, and the
\* store untouched; num_items is the number of names created and not removed
\* since, so 0 on a fresh store and k after k creates of distinct names.
C13_ListSnapshot ==
    [][\A s \in Slots :
          AnsweredOp(s, "list_items")
              => LET body == resp'[s].body
                 IN  /\ resp'[s].status = StatusOk
                     /\ body.num_items = Len(body.names)
                     /\ {body.names[i] : i \in 1..Len(body.names)} = DOMAIN db
                     /\ \A i, j \in 1..Len(body.names) :
                            body.names[i] = body.names[j] => i = j
                     /\ body.num_items = Cardinality(DOMAIN live)
                     /\ db' = db]_vars

C13_Witness ==
    \E s \in Slots :
        /\ pc[s] = "responded"
        /\ req[s].op = "list_items"
        /\ resp[s].status = StatusOk
        /\ resp[s].body.num_items = 2
        /\ resp[s].body.names = <<"b", "a">>
        /\ DOMAIN live = {"a", "b"}

\* C14 (invalid id): a create of an absent name whose payload carries an id
\* that Item::new rejects answers 500 with the error text and no entity, and
\* leaves the store, and what clients know of it, as it was.
C14_InvalidId ==
    [][\A s \in Slots :
          (/\ CreateAnswered(s)
           /\ ~contains_key(db, req'[s].name)
           /\ req'[s].id # None
           /\ ~ItemNew(req'[s].name, Unwrap(req'[s].id)).ok)
              => /\ resp'[s].status = StatusInternalServerError
                 /\ DOMAIN resp'[s].body = {"string"}
                 /\ db' = db
                 /\ req'[s].name \notin DOMAIN db'
                 /\ live' = live]_vars

C14_Witness ==
    \E s \in Slots :
        /\ pc[s] = "responded"
        /\ req[s].op = "create_item"
        /\ req[s].name = "a"
        /\ req[s].id = Some(10001)
        /\ resp[s].status = StatusInternalServerError
        /\ DOMAIN db = {"b"}

\* The status the rejection kinds are documented to answer with.
RejectionStatus(kind) ==
    CASE kind = "JsonSyntaxError" -> StatusBadRequest
      [] kind = "JsonDataError" -> StatusUnprocessableEntity
      [] kind = "MissingJsonContentType" -> StatusUnsupportedMediaType
      [] kind = "BytesRejection" -> StatusPayloadTooLarge

\* C15 (JSON rejection): a create whose body the Json extractor rejects is
\* answered by the extractor, before the handler takes the lock, with the
\* store unchanged: 400 for a syntax error, 422 for a schema mismatch, 415 for
\* a missing content type, 413 for an oversized body, and a body whose error
\* field names the rejection kind.
C15_JsonRejection ==
    [][\A s \in Slots :
          (AnsweredOp(s, "create_item") /\ req'[s].body \in JsonRejections)
              => /\ pc[s] = "received"
                 /\ s \notin lock.writer
                 /\ db' = db
                 /\ live' = live
                 /\ resp'[s].status = RejectionStatus(req'[s].body)
                 /\ DOMAIN resp'[s].body = {"error", "message"}
                 /\ resp'[s].body.error = req'[s].body]_vars

C15_Witness ==
    \E s \in Slots :
        /\ pc[s] = "responded"
        /\ req[s].op = "create_item"
        /\ req[s].body = "BytesRejection"
        /\ resp[s].status = StatusPayloadTooLarge
        /\ resp[s].body.error = "BytesRejection"
        /\ db # EmptyDb

\* A response of a handler or an extractor that reports a failure.
IsFailure(response) ==
    response.status >= StatusBadRequest /\ response # TimeoutResponse

OtherSecrets == {"k2", "k3"}

\* The answer of the guard to a request with this header, had the server been
\* configured with this secret.
GuardAnswer(header, secret) ==
    AuthErrorResponse_into_response(
        from_request_parts(header, Some([api_key |-> secret])))

\* C17 (no leak of the secret): when the guard rejects an admin request, a
\* server that differs only in its configured api_key, and whose key the
\* request does not present either, answers with the same status and body.
C17_NoLeak ==
    [][\A s \in Slots :
          (GuardRuns(s) /\ pc'[s] = "responded")
              => \A secret \in OtherSecrets :
                     (req'[s].header = None \/ Unwrap(req'[s].header).bytes # secret)
                         => resp'[s] = GuardAnswer(req'[s].header, secret)]_vars

C17_Witness ==
    \E s \in Slots :
        /\ pc[s] = "responded"
        /\ req[s].op \in AdminOps
        /\ req[s].header # None
        /\ Unwrap(req[s].header).bytes = "k2"
        /\ api_key = "k1"
        /\ resp[s].status = StatusUnauthorized
        /\ resp[s] = GuardAnswer(req[s].header, "k3")

\* The create of slot s is inside its handler body, past state.write().await:
\* between there and its return lie the existence check and the insert.
InCreateBody(s) == pc[s] = "locked" /\ req[s].op = "create_item"

\* C18 as stated (check-then-insert race): the existence check and the insert
\* of a create are not one atomic step: while one create is inside its body, a
\* second create that is ready to enter its own body can do so.
C18_RaceAsStated ==
    \A s, t \in Slots :
        (s # t /\ InCreateBody(s) /\ pc[t] = "validated" /\ req[t].op = "create_item")
            => ENABLED AcquireWrite(t)

\* C18 (create is atomic): a create runs its existence check and its insert
\* as the only holder of the write lock, with no other create inside its body;
\* it answers Created only for a name that is absent and has not been created
\* since its last removal, so of two concurrent creates of one absent name one
\* answers Created and the other Conflict.
C18_CreateAtomic ==
    [][\A s \in Slots :
          CreateAnswered(s)
              => /\ lock.writer = {s}
                 /\ lock.readers = {}
                 /\ \A t \in Slots \ {s} : ~InCreateBody(t)
                 /\ resp'[s].status = StatusCreated
                        => /\ req'[s].name \notin DOMAIN db
                           /\ req'[s].name \notin DOMAIN live
                 /\ resp'[s].status = StatusConflict
                        => /\ req'[s].name \in DOMAIN db
                           /\ req'[s].name \in DOMAIN live]_vars

C18_Witness ==
    \E s, t \in Slots :
        /\ pc[s] = "responded"
        /\ req[s].op = "create_item"
        /\ resp[s].status = StatusConflict
        /\ pc[t] = "validated"
        /\ req[t].op = "create_item"
        /\ lock.writer = {}

\* The handlers inside a body that runs under the write guard: create, and
\* the remove and delete-all of the lock-based admin module.
WriteHolders ==
    {s \in Slots :
        /\ pc[s] = "locked"
        /\ \/ req[s].op = "create_item"
           \/ admin_module = "legacy" /\ req[s].op \in AdminOps}

\* The handlers inside a body that runs under a read guard: query and list.
ReadHolders ==
    {s \in Slots : pc[s] = "locked" /\ req[s].op \in {"query_item", "list_items"}}

\* C19 (reader/writer discipline): at most one handler holds write access,
\* and while one does no handler holds read access; the holders of the lock
\* are the handlers inside a body that takes it, writers for create and the
\* lock-based remove and delete-all, readers for query and list.
C19_LockDiscipline ==
    /\ Cardinality(lock.writer) <= 1
    /\ lock.writer # {} => lock.readers = {}
    /\ lock.writer = WriteHolders
    /\ lock.readers = ReadHolders

C19_Witness ==
    /\ lock.readers = Slots
    /\ lock.writer = {}
    /\ \E s, t \in Slots :
           /\ req[s].op = "query_item"
           /\ req[t].op = "list_items"

\* C20 (per-key linear history): the requests take effect one at a time, in
\* the order of their answers, each between its arrival and its answer: the
\* store after every step is the replay of the answered creates, removes and
\* delete-alls, and what a query, create, remove or delete-all answers is what
\* that replay gives just before: the entity or absence of the name, and for
\* a delete-all the number of names present.
C20_LinearHistory ==
    [][/\ db' = live'
       /\ \A s \in Slots :
            LET n == req'[s].name
                r == resp'[s]
            IN  /\ AnsweredOp(s, "query_item")
                      => r = IF n \in DOMAIN live
                             THEN [status |-> StatusOk, body |-> live[n]]
                             ELSE [status |-> StatusNotFound, body |-> r.body]
                /\ CreateAnswered(s)
                      => IF n \in DOMAIN live
                         THEN r.status = StatusConflict
                         ELSE r.status \in {StatusCreated, StatusInternalServerError}
                /\ (AnsweredOp(s, "remove_item") /\ r.status # StatusUnauthorized)
                      => r = IF n \in DOMAIN live
                             THEN [status |-> StatusOk, body |-> live[n]]
                             ELSE [status |-> StatusNotFound, body |-> r.body]
                /\ (AnsweredOp(s, "delete_all_items") /\ r.status = StatusOk)
                      => r.body = MessageResponse(
                             <<"Removed ", Cardinality(DOMAIN live), " items">>)]_vars

\* C21 (remove once): of the removes of a name that pass the guard, with no
\* create of the name in between, the first to act answers Removed with the
\* entity and every other answers not-found and leaves the store alone,
\* whether they run one after the other or at the same time.
C21_RemoveOnce ==
    [][\A s \in Slots :
          (AnsweredOp(s, "remove_item") /\ resp'[s].status # StatusUnauthorized)
              => LET n == req'[s].name
                 IN  /\ n \in DOMAIN live
                         => resp'[s] = [status |-> StatusOk, body |-> live[n]]
                     /\ n \in removed
                         => (resp'[s].status = StatusNotFound /\ db' = db)
                     /\ resp'[s].status = StatusOk
                         => (n \in DOMAIN live /\ n \notin removed /\ n \notin DOMAIN db')]_vars

C21_Witness ==
    \E s, t \in Slots :
        /\ pc[s] = "responded"
        /\ req[s].op = "remove_item"
        /\ resp[s].status = StatusOk
        /\ removed = {req[s].name}
        /\ pc[t] = "validated"
        /\ req[t].op = "remove_item"

\* The request of slot s, answered in this step, carried the configured key
\* where the routes are guarded.
Authorized(s) ==
    admin_module = "routing"
        => (req'[s].header # None /\ Unwrap(req'[s].header).bytes = api_key)

\* C22 (immutable entity): an entry of the store stays mapped to the same
\* entity through every step, except a step in which an authorized remove of
\* its name or an authorized delete-all answers 200, which deletes it; no
\* query, list, create, rejected or aborted request changes or deletes it.
C22_Immutable ==
    [][\A n \in DOMAIN db :
          \/ (n \in DOMAIN db' /\ db'[n] = db[n])
          \/ /\ n \notin DOMAIN db'
             /\ \E s \in Slots :
                    /\ resp'[s].status = StatusOk
                    /\ Authorized(s)
                    /\ \/ AnsweredOp(s, "remove_item") /\ req'[s].name = n
                       \/ AnsweredOp(s, "delete_all_items")]_vars

C22_Witness ==
    \E s \in Slots :
        /\ pc[s] = "responded"
        /\ req[s].op = "create_item"
        /\ req[s].name \in DOMAIN db
        /\ req[s].id = Some(9999)
        /\ db[req[s].name].id = 1000
        /\ resp[s].status = StatusConflict

\* C23 (ids are not unique): a create of an absent name with an id in
\* [1000, 9999] that a stored entity of another name already holds answers
\* Created and stores the entity with that id next to the other.
C23_IdNotUnique ==
    [][\A s \in Slots :
          (/\ CreateAnswered(s)
           /\ req'[s].name \notin DOMAIN db
           /\ req'[s].id # None
           /\ InIdRange(Unwrap(req'[s].id))
           /\ \E k \in DOMAIN db : db[k].id = Unwrap(req'[s].id))
              => /\ resp'[s].status = StatusCreated
                 /\ req'[s].name \in DOMAIN db'
                 /\ db'[req'[s].name].id = Unwrap(req'[s].id)
                 /\ \A k \in DOMAIN db : k \in DOMAIN db' /\ db'[k] = db[k]]_vars

C23_Witness ==
    /\ DOMAIN db = {"a", "b"}
    /\ db["a"].id = db["b"].id
    /\ \E s \in Slots :
           /\ pc[s] = "responded"
           /\ req[s].op = "create_item"
           /\ req[s].id # None
           /\ resp[s].status = StatusCreated

\* C27 (keyed by name): every entry of the store is filed under the name of
\* the entity it holds.
C27_KeyedByName == \A k \in DOMAIN db : db[k].name = k

C27_Witness ==
    /\ DOMAIN db = {"a", "b"}
    /\ db["a"].name = "a"
    /\ db["b"].name = "b"

\* C28 (conflict before validation): a create of a name that is in the store
\* answers Conflict (409) and leaves the store alone whatever id it carries,
\* and a create answers 500 only for a name that is absent, with an id that
\* Item::new rejects.
C28_ConflictFirst ==
    [][\A s \in Slots :
          CreateAnswered(s)
              => /\ req'[s].name \in DOMAIN db
                     => (resp'[s].status = StatusConflict /\ db' = db)
                 /\ resp'[s].status = StatusInternalServerError
                     => /\ req'[s].name \notin DOMAIN db
                        /\ req'[s].id # None
                        /\ ~ItemNew(req'[s].name, Unwrap(req'[s].id)).ok]_vars

C28_Witness ==
    \E s \in Slots :
        /\ pc[s] = "responded"
        /\ req[s].op = "create_item"
        /\ req[s].id = Some(10001)
        /\ req[s].name \in DOMAIN db
        /\ resp[s].status = StatusConflict

\* The statuses the outcome types of a route convert to.
Outcomes(op) ==
    CASE op = "query_item" -> {StatusOk, StatusNotFound}
      [] op = "create_item" ->
             {StatusCreated, StatusConflict, StatusInternalServerError}
                 \cup {RejectionStatus(kind) : kind \in JsonRejections}
      [] op = "list_items" -> {StatusOk}
      [] op = "remove_item" -> {StatusOk, StatusNotFound, StatusUnauthorized}
      [] op = "delete_all_items" -> {StatusOk, StatusUnauthorized}

StepOf(s, op) == pc'[s] # pc[s] /\ pc[s] # "idle" /\ req[s].op = op

\* C26 (read-only): no step of a query or a list request changes the store,
\* whether the query finds the name or not.
C26_ReadOnly ==
    [][\A s \in Slots :
          (StepOf(s, "query_item") \/ StepOf(s, "list_items")) => db' = db]_vars

C26_Witness ==
    \E s \in Slots :
        /\ pc[s] = "responded"
        /\ req[s].op = "query_item"
        /\ resp[s].status = StatusOk
        /\ DOMAIN db = {"a", "b"}

\* The timeout layer answers in place of the request of slot s in this step.
Aborted(s) ==
    /\ pc[s] # "responded"
    /\ pc'[s] = "responded"
    /\ resp'[s] = TimeoutResponse

\* C29 as stated (timeout): a request is aborted by the timeout only while it
\* waits to acquire the store lock, and the abort leaves the store unchanged.
C29_TimeoutAsStated ==
    [][\A s \in Slots : Aborted(s) => (AwaitsLock(s) /\ db' = db)]_vars

\* C29 (timeout): a request is aborted by the timeout only where it is
\* suspended: while the extractor reads the body of a create, before the
\* handler starts, or while the handler waits to acquire the store lock. It
\* holds no guard then and is never inside a handler body, so never between
\* the existence check and the insert of a create; the abort leaves the store
\* and the lock as they were, and the store holds only what answered
\* creates put there.
C29_Timeout ==
    [][\A s \in Slots :
          Aborted(s)
              => /\ AwaitsLock(s) \/ AwaitsBody(s)
                 /\ pc[s] \notin {"locked", "counted"}
                 /\ s \notin lock.writer \cup lock.readers
                 /\ db' = db
                 /\ lock' = lock
                 /\ live' = live
                 /\ db' = live']_vars

C29_Witness ==
    \E s, t \in Slots :
        /\ pc[s] = "responded"
        /\ req[s].op = "create_item"
        /\ req[s].body = "ok"
        /\ resp[s] = TimeoutResponse
        /\ InCreateBody(t)
        /\ db # EmptyDb

\* The place of a request on its way: Received, Validated, StoreOp (inside
\* the handler body), Responded.
Phase(p) ==
    CASE p = "idle" -> 0
      [] p = "received" -> 1
      [] p = "validated" -> 2
      [] p \in {"locked", "counted"} -> 3
      [] p = "responded" -> 4

\* C24 (request state machine): a request only moves forward through
\* Received, Validated, StoreOp and Responded, and leaves Responded only by
\* being gone; the store changes only in the step in which a create, remove or
\* delete-all answers, so a request changes it at most once; and with a fair
\* scheduler and fair granting of the lock every request that has arrived is
\* answered.
C24_RequestMachine ==
    /\ [][/\ \A s \in Slots :
               pc'[s] # pc[s]
                   => IF pc[s] = "responded"
                      THEN pc'[s] = "idle"
                      ELSE /\ Phase(pc'[s]) > Phase(pc[s])
                           /\ pc[s] = "idle" => pc'[s] = "received"
          /\ db' # db
               => \E s \in Slots :
                      /\ Answered(s)
                      /\ req'[s].op \in {"create_item"} \cup AdminOps
                      /\ \A t \in Slots \ {s} : pc'[t] = pc[t]]_vars
    /\ \A s \in Slots : (pc[s] = "received") ~> (pc[s] = "responded")

C24_Witness ==
    \E s, t \in Slots :
        /\ pc[s] = "responded"
        /\ req[s].op = "create_item"
        /\ resp[s].status = StatusCreated
        /\ pc[t] = "validated"
        /\ TakesWrite(req[t].op)

\* C30 (no deadlock): a handler holds the lock only inside its body, which it
\* enters once and leaves with its answer, so a request that waits, has
\* answered or is gone holds nothing; and whenever a request is pending, some
\* pending request can take a step of its own, the timeout not counted.
C30_NoDeadlock ==
    /\ \A s \in Slots :
           s \in lock.writer \cup lock.readers => pc[s] = "locked"
    /\ (\E s \in Slots : pc[s] # "idle")
           => \E s \in Slots : pc[s] # "idle" /\ ENABLED HandlerStep(s)

C30_Witness ==
    \E s, t \in Slots :
        /\ admin_module = "legacy"
        /\ lock.writer = {s}
        /\ req[s].op = "delete_all_items"
        /\ AwaitsLock(t)
        /\ req[t].op = "remove_item"
        /\ ~ENABLED HandlerStep(t)
        /\ ENABLED HandlerStep(s)

====
